---- MODULE Spec2Model ----
(***************************************************************************)
(* Mailbox distance-sample processing pipeline: median filter, quality     *)
(* tracker and occupancy state machine of Processor::Processor            *)
(* (src/main/processor/processor.cpp), driven by caller-supplied virtual   *)
(* timestamps.                                                             *)
(*                                                                         *)
(* Distances are floats in the source.  Every distance that occurs here is *)
(* a whole centimetre (raw samples, BASELINE_CM, TRIGGER_DELTA_CM), half   *)
(* of TRIGGER_DELTA_CM, or the mean of two whole centimetres, all exactly  *)
(* representable in binary32, so they are kept as integers counting        *)
(* 1/CmUnit centimetres.  Timestamps are microseconds.                     *)
(***************************************************************************)
EXTENDS Integers, Sequences, FiniteSets, TLC

\* ------------------------------------------------------------------ config
BASELINE_CM == 40
TRIGGER_DELTA_CM == 3
HOLD_MS == 250
REFRACTORY_MS == 8000
FILTER_WINDOW == 5

\* fixed-point resolution of a distance: units per centimetre
CmUnit == 2

\* ------------------------------------------------------------------ bounds
\* number of Process calls explored from a cold start, per specification
MaxCalls == 7
MaxCallsTimed == 8
MaxCallsFilter == 7
MaxCallsQuality == 6
MaxCycles == 6
MaxBoots == 2
MaxCyclesHeartbeat == 715
MaxCallsDuty == 24

\* gaps between two Process calls (us): below the hold time, the hold time,
\* one deep-sleep period (longer than the refractory window)
ShortGapUs == 100000
HoldGapUs == HOLD_MS * 1000
DEEP_SLEEP_US == 10000000
HEARTBEAT_INTERVAL_SEC == 7200

\* inputs <<raw sample (cm), gap since the previous call (us)>> of the
\* state-machine specification: the invalid sentinel, a sample below the full
\* threshold and one above the empty threshold, at gaps below and at the hold
InputsSm == {-1, 20, 39} \X {ShortGapUs, HoldGapUs}

\* inputs of the long-run specification: valid samples at the hold gap,
\* time-outs at any gap, so that a window empties and a refractory window ends
InputsTimed ==
    ({20, 39} \X {HoldGapUs}) \cup ({-1} \X {ShortGapUs, HoldGapUs, DEEP_SLEEP_US})

\* inputs of the filter specification: invalid (negative, zero) and valid
\* samples on both sides of every threshold, one sleep period apart
InputsFilter == {-1, 0, 20, 35, 38, 39} \X {DEEP_SLEEP_US}

\* quality tracker: a valid or a timed-out sample; 200 ms and 900 ms stay below
\* the recomputation interval of 1 s, 29.7 s and 60 s reach the decay period,
\* 130 s spans more than two decay periods
InputsQuality ==
    {<<20, 200000>>, <<-1, 900000>>, <<20, 29700000>>, <<-1, 29700000>>,
     <<20, 60000000>>, <<-1, 130000000>>}

\* duty cycle: a time-out or an occluded reading, one sleep period after the
\* previous call (the shortest gap app_main leaves, so the slowest decay)
InputsDuty == {-1, 20} \X {DEEP_SLEEP_US}

\* wake cycles: a time-out, an occluded and an unoccluded reading
InputsMain == {-1, 20, 39}

\* wake cycles up to the first heartbeat: the mailbox stays empty
InputsHeartbeat == {39}

\* time awake without the radio, the two 1000 ms delays around Publish, and
\* the 100 polls of 100 ms after which connect_wifi_blocking gives up
AwakeUs == 100000
PublishUs == 2 * 1000 * 1000
WifiTimeoutUs == 100 * 100 * 1000

\* confidence: deltas from 0 to 40 cm, durations around HOLD_MS, rates around
\* and beyond the clamp at 1
InputsDelta == {0, 1, 5, 6, 7, 12, 40, 80}
InputsDuration == {0, 100, 249, 250, 500, 900}
InputsRate == {<<0, 1>>, <<1, 3>>, <<1, 1>>, <<3, 2>>}

States == {"EMPTY", "HAS_MAIL", "FULL", "EMPTIED"}

\* ----------------------------------------------------------------- helpers
\* static_cast<uint32_t>: reduction modulo 2^32
Uint32(x) == x - ((x \div 65536) \div 65536) * 65536 * 65536

RECURSIVE Gcd(_, _)
Gcd(a, b) == IF b = 0 THEN a ELSE Gcd(b, a % b)

\* the float quotient ok/total, kept as a fraction in lowest terms
FloatDiv(a, b) == LET g == Gcd(a, b) IN <<a \div g, b \div g>>

\* --------------------------------------------------------------- timestamps
\* The program's timestamps are uint64_t microseconds. A behaviour holds them
\* either as one integer, which is exact while its clock stays below 2^31 us,
\* or as four limbs <<e, mh, ml, us>> standing for
\* ((e * Limb + mh) * Limb + ml) * 1000 + us microseconds, with
\* 0 <= mh, ml < Limb and 0 <= us < 1000: e counts whole periods of 2^32 ms.
\* limbs says which (1: one integer, 2: limbs), and never changes.
VARIABLE limbs

Limb == 256 * 256

\* the timestamp us microseconds after 0, for 0 <= us < 2^31
TimeOf(us) ==
    IF limbs = 1 THEN us
    ELSE <<0, (us \div 1000) \div Limb, (us \div 1000) % Limb, us % 1000>>

\* no timestamp recorded (used by the history only)
NoTime == IF limbs = 1 THEN -1 ELSE <<-1, 0, 0, 0>>

\* t + g for two values of the same representation
TimePlus(t, g) ==
    IF limbs = 1 THEN t + g
    ELSE LET us == t[4] + g[4]
             ml == t[3] + g[3] + us \div 1000
             mh == t[2] + g[2] + ml \div Limb
         IN <<t[1] + g[1] + mh \div Limb, mh % Limb, ml % Limb, us % 1000>>

\* t + d for a duration 0 <= d < 2^30 us
TimeAfter(t, d) == TimePlus(t, TimeOf(d))

\* a < b
TimeBefore(a, b) ==
    IF limbs = 1 THEN a < b
    ELSE \E i \in 1..4 : a[i] < b[i] /\ \A j \in 1..(i - 1) : a[j] = b[j]

\* static_cast<uint32_t>((t - since) / 1000ULL) for t >= since: the quotient
\* is reduced modulo 2^32, which in limbs drops e; the result must be below 2^31
ForwardMs(t, since) ==
    IF limbs = 1 THEN Uint32((t - since) \div 1000)
    ELSE LET ml == t[3] - since[3] - (IF t[4] < since[4] THEN 1 ELSE 0)
             mh == t[2] - since[2] - (IF ml < 0 THEN 1 ELSE 0)
         IN (mh % Limb) * Limb + (ml % Limb)

\* 2^64 = 18446744073709551 * 1000 + 616, and 18446744073709551 modulo 2^32
\* is WrappedMs; WrapRestUs = 1000 - 1 - 616
WrappedMs == 1271310319
WrapRestUs == 383

\* static_cast<uint32_t>((t - since) / 1000ULL): for t < since the uint64_t
\* difference is 2^64 - k with k = since - t, whose quotient modulo 2^32 is
\* WrappedMs - ceil((k - 616) / 1000)
DurationMs(t, since) ==
    IF TimeBefore(t, since)
    THEN WrappedMs - ForwardMs(TimeAfter(since, WrapRestUs), t)
    ELSE ForwardMs(t, since)

\* t / 1000000ULL, for t below 2^31 ms
TimeSec(t) ==
    IF limbs = 1 THEN t \div 1000000
    ELSE ((t[1] * Limb + t[2]) * Limb + t[3]) \div 1000

\* ------------------------------------------------------------- constructors
ZeroContext ==
    [window |-> [i \in 0..(FILTER_WINDOW - 1) |-> 0],
     w_idx |-> 0, w_count |-> 0, filtered_cm |-> 0,
     ok_count |-> 0, total_count |-> 0, ms_since_decay |-> 0,
     success_rate |-> <<0, 1>>, last_update_us |-> TimeOf(0),
     current_state |-> "EMPTY", occluding |-> FALSE,
     occlusion_start_us |-> TimeOf(0), state_change_us |-> TimeOf(0),
     refractory_until_us |-> TimeOf(0)]

\* Processor::Processor()
ProcessorNew ==
    [ctx |-> [ZeroContext EXCEPT !.current_state = "EMPTY",
                                 !.filtered_cm = -1 * CmUnit],
     baseline_cm |-> BASELINE_CM * CmUnit,
     trigger_thresh_cm |-> (BASELINE_CM - TRIGGER_DELTA_CM) * CmUnit,
     full_thresh_cm |-> (BASELINE_CM - 2 * TRIGGER_DELTA_CM) * CmUnit,
     empty_thresh_cm |-> BASELINE_CM * CmUnit - (TRIGGER_DELTA_CM * CmUnit) \div 2]

\* faulty variant: the running occlusion timer is not taken over from the context
ProcessorRestoreNoTimer(c) ==
    [ProcessorNew EXCEPT !.ctx = [c EXCEPT !.occluding = FALSE]]

\* Processor::Processor(const StateContext &)
ProcessorRestore(c) ==
    [ctx |-> c,
     baseline_cm |-> BASELINE_CM * CmUnit,
     trigger_thresh_cm |-> (BASELINE_CM - TRIGGER_DELTA_CM) * CmUnit,
     full_thresh_cm |-> (BASELINE_CM - 2 * TRIGGER_DELTA_CM) * CmUnit,
     empty_thresh_cm |-> BASELINE_CM * CmUnit - (TRIGGER_DELTA_CM * CmUnit) \div 2]

\* Processor::GetContext
GetContext(p) == p.ctx

\* ------------------------------------------------------------------ filter
\* the valid (> 0) values of slots 0 .. n-1, in slot order
RECURSIVE ValidPrefix(_, _)
ValidPrefix(window, n) ==
    IF n = 0 THEN <<>>
    ELSE LET rest == ValidPrefix(window, n - 1)
             v == window[n - 1]
         IN IF v > 0 THEN Append(rest, v) ELSE rest

\* faulty variant: the upper central element is returned for every count
calculateMedianUpper(c) ==
    LET tmp == ValidPrefix(c.window, c.w_count)
        n == Len(tmp)
    IN IF n = 0 THEN -1 * CmUnit
       ELSE SortSeq(tmp, LAMBDA x, y : x < y)[n \div 2 + 1]

\* Processor::calculateMedian
calculateMedian(c) ==
    LET tmp == ValidPrefix(c.window, c.w_count)
        n == Len(tmp)
    IN IF n = 0 THEN -1 * CmUnit
       ELSE LET sorted == SortSeq(tmp, LAMBDA x, y : x < y)
            IN IF n % 2 = 1 THEN sorted[n \div 2 + 1]
               ELSE (sorted[n \div 2] + sorted[n \div 2 + 1]) \div 2

\* faulty variant: the write cursor stops at the last slot instead of wrapping
addToFilterStuck(c, distance_cm) ==
    LET c1 == [c EXCEPT !.window[c.w_idx] = distance_cm,
                        !.w_idx = IF c.w_idx + 1 < FILTER_WINDOW
                                  THEN c.w_idx + 1 ELSE c.w_idx,
                        !.w_count = IF c.w_count < FILTER_WINDOW
                                    THEN c.w_count + 1 ELSE c.w_count]
    IN [c1 EXCEPT !.filtered_cm = calculateMedian(c1)]

\* faulty variant: the write cursor is advanced without the modulo
addToFilterNoWrap(c, distance_cm) ==
    LET c1 == [c EXCEPT !.window[c.w_idx] = distance_cm,
                        !.w_idx = c.w_idx + 1,
                        !.w_count = IF c.w_count < FILTER_WINDOW
                                    THEN c.w_count + 1 ELSE c.w_count]
    IN [c1 EXCEPT !.filtered_cm = calculateMedian(c1)]

\* Processor::addToFilter
addToFilter(c, distance_cm) ==
    LET c1 == [c EXCEPT !.window[c.w_idx] = distance_cm,
                        !.w_idx = (c.w_idx + 1) % FILTER_WINDOW,
                        !.w_count = IF c.w_count < FILTER_WINDOW
                                    THEN c.w_count + 1 ELSE c.w_count]
    IN [c1 EXCEPT !.filtered_cm = calculateMedian(c1)]

\* ----------------------------------------------------------------- quality
\* faulty variant: the rate is computed from the counters after the decay step
updateSuccessRateAfterDecay(c, elapsed_ms) ==
    LET acc == Uint32(c.ms_since_decay + elapsed_ms)
        c1 == IF acc >= 60000
              THEN [c EXCEPT !.ok_count = c.ok_count \div 2,
                             !.total_count = c.total_count \div 2,
                             !.ms_since_decay = 0]
              ELSE [c EXCEPT !.ms_since_decay = acc]
    IN [c1 EXCEPT !.success_rate =
                     IF c1.total_count > 0 THEN FloatDiv(c1.ok_count, c1.total_count)
                     ELSE <<0, 1>>]

\* faulty variant: the accumulator is assigned the elapsed time, not increased by it
updateSuccessRateNoAccumulate(c, elapsed_ms) ==
    LET c1 == [c EXCEPT !.success_rate =
                     IF c.total_count > 0 THEN FloatDiv(c.ok_count, c.total_count)
                     ELSE <<0, 1>>,
                 !.ms_since_decay = elapsed_ms]
    IN IF c1.ms_since_decay >= 60000
       THEN [c1 EXCEPT !.ok_count = c1.ok_count \div 2,
                       !.total_count = c1.total_count \div 2,
                       !.ms_since_decay = 0]
       ELSE c1

\* faulty variant: the decay step halves total_count only
updateSuccessRateHalveTotal(c, elapsed_ms) ==
    LET c1 == [c EXCEPT !.success_rate =
                     IF c.total_count > 0 THEN FloatDiv(c.ok_count, c.total_count)
                     ELSE <<0, 1>>,
                 !.ms_since_decay = Uint32(c.ms_since_decay + elapsed_ms)]
    IN IF c1.ms_since_decay >= 60000
       THEN [c1 EXCEPT !.total_count = c1.total_count \div 2,
                       !.ms_since_decay = 0]
       ELSE c1

\* faulty variant: the counters are halved once for every decay period elapsed
updateSuccessRateHalvePerPeriod(c, elapsed_ms) ==
    LET c1 == [c EXCEPT !.success_rate =
                     IF c.total_count > 0 THEN FloatDiv(c.ok_count, c.total_count)
                     ELSE <<0, 1>>,
                 !.ms_since_decay = Uint32(c.ms_since_decay + elapsed_ms)]
        periods == c1.ms_since_decay \div 60000
    IN IF periods >= 1
       THEN [c1 EXCEPT !.ok_count = c1.ok_count \div (2 ^ periods),
                       !.total_count = c1.total_count \div (2 ^ periods),
                       !.ms_since_decay = 0]
       ELSE c1

\* faulty variant: the counters are never halved
updateSuccessRateNoDecay(c, elapsed_ms) ==
    [c EXCEPT !.success_rate =
                  IF c.total_count > 0 THEN FloatDiv(c.ok_count, c.total_count)
                  ELSE <<0, 1>>,
              !.ms_since_decay = Uint32(c.ms_since_decay + elapsed_ms)]

\* Processor::updateSuccessRate
updateSuccessRate(c, elapsed_ms) ==
    LET c1 == [c EXCEPT !.success_rate =
                     IF c.total_count > 0 THEN FloatDiv(c.ok_count, c.total_count)
                     ELSE <<0, 1>>,
                 !.ms_since_decay = Uint32(c.ms_since_decay + elapsed_ms)]
    IN IF c1.ms_since_decay >= 60000
       THEN [c1 EXCEPT !.ok_count = c1.ok_count \div 2,
                       !.total_count = c1.total_count \div 2,
                       !.ms_since_decay = 0]
       ELSE c1

\* ----------------------------------------------------------- state machine
\* faulty variant: the timer is restarted on every occluded call
StartTimerAlways(c, now_us) ==
    [c EXCEPT !.occlusion_start_us = now_us, !.occluding = TRUE]

\* the "if (!ctx_.occluding) { start timer }" prologue of a hold branch
StartTimer(c, now_us) ==
    IF ~c.occluding
    THEN [c EXCEPT !.occlusion_start_us = now_us, !.occluding = TRUE]
    ELSE c

\* faulty variant: the else branch leaves a running timer running
KeepTimer(c) == c

\* the "if (ctx_.occluding) ctx_.occluding = false" of an else branch
DropTimer(c) == IF c.occluding THEN [c EXCEPT !.occluding = FALSE] ELSE c

\* faulty variant: the refractory window is never consulted
InRefractoryNever(c, now_us) == FALSE

\* const bool in_refractory = (now_us < ctx_.refractory_until_us)
InRefractory(c, now_us) == TimeBefore(now_us, c.refractory_until_us)

\* faulty variant: an invalid filtered value is fed to the switch like any other
InvalidReadingIgnored(c) == FALSE

\* the guard of the early return: if (ctx_.filtered_cm <= 0) return
InvalidReading(c) == c.filtered_cm <= 0

\* faulty variant: a deep occlusion takes EMPTY straight to FULL
caseEMPTY_StraightToFull(p, data, now_us, in_refractory) ==
    LET c == p.ctx IN
    IF ~in_refractory /\ c.filtered_cm < p.trigger_thresh_cm
    THEN LET c1 == StartTimer(c, now_us)
             held_ms == DurationMs(now_us, c1.occlusion_start_us)
         IN IF held_ms >= HOLD_MS
            THEN [ctx |-> [c1 EXCEPT !.current_state =
                                         IF c1.filtered_cm < p.full_thresh_cm
                                         THEN "FULL" ELSE "HAS_MAIL",
                                     !.state_change_us = now_us,
                                     !.refractory_until_us = TimeAfter(now_us, REFRACTORY_MS * 1000),
                                     !.occluding = FALSE],
                  data |-> [data EXCEPT !.mail_detected = TRUE,
                                        !.delta_cm = p.baseline_cm - c1.filtered_cm,
                                        !.duration_ms = held_ms]]
            ELSE [ctx |-> c1, data |-> data]
    ELSE [ctx |-> DropTimer(c), data |-> data]

\* case MailboxState::EMPTY
caseEMPTY(p, data, now_us, in_refractory) ==
    LET c == p.ctx IN
    IF ~in_refractory /\ c.filtered_cm < p.trigger_thresh_cm
    THEN LET c1 == StartTimer(c, now_us)
             held_ms == DurationMs(now_us, c1.occlusion_start_us)
         IN IF held_ms >= HOLD_MS
            THEN [ctx |-> [c1 EXCEPT !.current_state = "HAS_MAIL",
                                     !.state_change_us = now_us,
                                     !.refractory_until_us = TimeAfter(now_us, REFRACTORY_MS * 1000),
                                     !.occluding = FALSE],
                  data |-> [data EXCEPT !.mail_detected = TRUE,
                                        !.delta_cm = p.baseline_cm - c1.filtered_cm,
                                        !.duration_ms = held_ms]]
            ELSE [ctx |-> c1, data |-> data]
    ELSE [ctx |-> DropTimer(c), data |-> data]

\* faulty variant: the collection reports the arrival's delta, baseline - filtered
CollectionDeltaFromBaseline(p, data, now_us) ==
    LET c1 == StartTimer(p.ctx, now_us)
        held_ms == DurationMs(now_us, c1.occlusion_start_us)
    IN IF held_ms >= HOLD_MS
       THEN [ctx |-> [c1 EXCEPT !.current_state = "EMPTIED",
                                !.state_change_us = now_us,
                                !.occluding = FALSE],
             data |-> [data EXCEPT !.mail_collected = TRUE,
                                   !.delta_cm = p.baseline_cm - c1.filtered_cm,
                                   !.duration_ms = held_ms]]
       ELSE [ctx |-> c1, data |-> data]

\* faulty variant: the collection leaves the timer running
CollectionKeepsTimer(p, data, now_us) ==
    LET c1 == StartTimer(p.ctx, now_us)
        held_ms == DurationMs(now_us, c1.occlusion_start_us)
    IN IF held_ms >= HOLD_MS
       THEN [ctx |-> [c1 EXCEPT !.current_state = "EMPTIED",
                                !.state_change_us = now_us],
             data |-> [data EXCEPT !.mail_collected = TRUE,
                                   !.delta_cm = c1.filtered_cm - p.trigger_thresh_cm,
                                   !.duration_ms = held_ms]]
       ELSE [ctx |-> c1, data |-> data]

\* the collection branch shared verbatim by HAS_MAIL and FULL
Collection(p, data, now_us) ==
    LET c1 == StartTimer(p.ctx, now_us)
        held_ms == DurationMs(now_us, c1.occlusion_start_us)
    IN IF held_ms >= HOLD_MS
       THEN [ctx |-> [c1 EXCEPT !.current_state = "EMPTIED",
                                !.state_change_us = now_us,
                                !.occluding = FALSE],
             data |-> [data EXCEPT !.mail_collected = TRUE,
                                   !.delta_cm = c1.filtered_cm - p.trigger_thresh_cm,
                                   !.duration_ms = held_ms]]
       ELSE [ctx |-> c1, data |-> data]

\* faulty variant: the move to FULL waits for the hold time like a collection
caseHAS_MAIL_Held(p, data, now_us) ==
    LET c == p.ctx IN
    IF c.filtered_cm < p.full_thresh_cm
    THEN LET c1 == StartTimer(c, now_us)
             held_ms == DurationMs(now_us, c1.occlusion_start_us)
         IN IF held_ms >= HOLD_MS
            THEN [ctx |-> [c1 EXCEPT !.current_state = "FULL",
                                     !.state_change_us = now_us,
                                     !.occluding = FALSE],
                  data |-> data]
            ELSE [ctx |-> c1, data |-> data]
    ELSE IF c.filtered_cm > p.empty_thresh_cm
    THEN Collection(p, data, now_us)
    ELSE [ctx |-> DropTimer(c), data |-> data]

\* case MailboxState::HAS_MAIL
caseHAS_MAIL(p, data, now_us) ==
    LET c == p.ctx IN
    IF c.filtered_cm < p.full_thresh_cm
    THEN [ctx |-> [c EXCEPT !.current_state = "FULL", !.state_change_us = now_us],
          data |-> data]
    ELSE IF c.filtered_cm > p.empty_thresh_cm
    THEN Collection(p, data, now_us)
    ELSE [ctx |-> DropTimer(c), data |-> data]

\* faulty variant: a filtered value at the empty threshold counts as released
caseFULL_AtEmpty(p, data, now_us) ==
    LET c == p.ctx IN
    IF c.filtered_cm >= p.empty_thresh_cm
    THEN Collection(p, data, now_us)
    ELSE [ctx |-> DropTimer(c), data |-> data]

\* case MailboxState::FULL
caseFULL(p, data, now_us) ==
    LET c == p.ctx IN
    IF c.filtered_cm > p.empty_thresh_cm
    THEN Collection(p, data, now_us)
    ELSE [ctx |-> DropTimer(c), data |-> data]

\* faulty variant: EMPTY is re-entered without opening a refractory window
caseEMPTIED_NoRefractory(p, data, now_us, time_in_state_ms) ==
    LET c == p.ctx IN
    IF time_in_state_ms >= HOLD_MS
    THEN [ctx |-> [c EXCEPT !.current_state = "EMPTY", !.state_change_us = now_us],
          data |-> data]
    ELSE [ctx |-> c, data |-> data]

\* faulty variant: EMPTY is re-entered only strictly after the hold time
caseEMPTIED_Strict(p, data, now_us, time_in_state_ms) ==
    LET c == p.ctx IN
    IF time_in_state_ms > HOLD_MS
    THEN [ctx |-> [c EXCEPT !.current_state = "EMPTY",
                            !.state_change_us = now_us,
                            !.refractory_until_us = TimeAfter(now_us, REFRACTORY_MS * 1000)],
          data |-> data]
    ELSE [ctx |-> c, data |-> data]

\* case MailboxState::EMPTIED
caseEMPTIED(p, data, now_us, time_in_state_ms) ==
    LET c == p.ctx IN
    IF time_in_state_ms >= HOLD_MS
    THEN [ctx |-> [c EXCEPT !.current_state = "EMPTY",
                            !.state_change_us = now_us,
                            !.refractory_until_us = TimeAfter(now_us, REFRACTORY_MS * 1000)],
          data |-> data]
    ELSE [ctx |-> c, data |-> data]

\* faulty variant: the returned state is not refreshed after the switch
updateStateMachineStaleState(p, data, now_us) ==
    LET c == p.ctx IN
    IF InvalidReading(c) THEN [ctx |-> c, data |-> data]
    ELSE LET in_refractory == InRefractory(c, now_us)
             time_in_state_ms == DurationMs(now_us, c.state_change_us)
             r == CASE c.current_state = "EMPTY" -> caseEMPTY(p, data, now_us, in_refractory)
                    [] c.current_state = "HAS_MAIL" -> caseHAS_MAIL(p, data, now_us)
                    [] c.current_state = "FULL" -> caseFULL(p, data, now_us)
                    [] c.current_state = "EMPTIED" -> caseEMPTIED(p, data, now_us, time_in_state_ms)
         IN [ctx |-> r.ctx, data |-> r.data]

\* Processor::updateStateMachine
updateStateMachine(p, data, now_us) ==
    LET c == p.ctx IN
    IF InvalidReading(c) THEN [ctx |-> c, data |-> data]
    ELSE LET in_refractory == InRefractory(c, now_us)
             time_in_state_ms == DurationMs(now_us, c.state_change_us)
             r == CASE c.current_state = "EMPTY" -> caseEMPTY(p, data, now_us, in_refractory)
                    [] c.current_state = "HAS_MAIL" -> caseHAS_MAIL(p, data, now_us)
                    [] c.current_state = "FULL" -> caseFULL(p, data, now_us)
                    [] c.current_state = "EMPTIED" -> caseEMPTIED(p, data, now_us, time_in_state_ms)
         IN [ctx |-> r.ctx, data |-> [r.data EXCEPT !.state = r.ctx.current_state]]

\* ----------------------------------------------------------------- Process
\* DistanceData data = {}
ZeroData ==
    [raw_cm |-> 0, filtered_cm |-> 0, success_rate |-> <<0, 1>>,
     mail_detected |-> FALSE, mail_collected |-> FALSE,
     delta_cm |-> 0, duration_ms |-> 0, state |-> "EMPTY"]

\* faulty variant: the rate is recomputed on every call
RecomputeDueAlways(elapsed_ms) == TRUE

\* Processor::Process: the test that gates the recomputation of the rate
RecomputeDue(elapsed_ms) == elapsed_ms >= 1000

\* Processor::Process: the processor after the call and the returned data
ProcessCall(p, raw_distance_cm, current_time_us) ==
    LET c0 == p.ctx
        d0 == [ZeroData EXCEPT !.raw_cm = raw_distance_cm,
                               !.state = c0.current_state]
        c1 == [c0 EXCEPT !.total_count = c0.total_count + 1,
                         !.ok_count = IF raw_distance_cm > 0
                                      THEN c0.ok_count + 1 ELSE c0.ok_count]
        c2 == addToFilter(c1, raw_distance_cm)
        d1 == [d0 EXCEPT !.filtered_cm = c2.filtered_cm]
        elapsed_ms == DurationMs(current_time_us, c2.last_update_us)
        c3 == IF RecomputeDue(elapsed_ms)
              THEN [updateSuccessRate(c2, elapsed_ms) EXCEPT !.last_update_us = current_time_us]
              ELSE c2
        d2 == [d1 EXCEPT !.success_rate = c3.success_rate]
        r == updateStateMachine([p EXCEPT !.ctx = c3], d2, current_time_us)
    IN [proc |-> [p EXCEPT !.ctx = r.ctx], data |-> r.data]

\* --------------------------------------------------------------- telemetry
\* float arithmetic on exact fractions <<numerator, denominator>>
FloatAdd(a, b) == FloatDiv(a[1] * b[2] + b[1] * a[2], a[2] * b[2])
FloatMul(a, b) == FloatDiv(a[1] * b[1], a[2] * b[2])
FloatQuot(a, b) == FloatDiv(a[1] * b[2], a[2] * b[1])
FloatLess(a, b) == a[1] * b[2] < b[1] * a[2]

\* std::max, std::min, std::clamp
FloatMax(a, b) == IF FloatLess(a, b) THEN b ELSE a
FloatMin(a, b) == IF FloatLess(b, a) THEN b ELSE a
FloatClamp(v, lo, hi) == IF FloatLess(v, lo) THEN lo ELSE IF FloatLess(hi, v) THEN hi ELSE v

\* faulty variant: the sum of the components is returned without the upper clamp
calculateConfidenceUnclamped(d) ==
    LET delta_component ==
            FloatMul(<<1, 2>>, FloatQuot(FloatDiv(d.delta_cm, CmUnit),
                                         FloatMax(<<1, 10>>, <<TRIGGER_DELTA_CM, 1>>)))
        duration_component ==
            FloatMul(<<3, 10>>, FloatQuot(<<d.duration_ms, 1>>,
                                          FloatMax(<<1, 1>>, <<HOLD_MS, 1>>)))
        reliability_component ==
            FloatMul(<<1, 5>>, FloatClamp(d.success_rate, <<0, 1>>, <<1, 1>>))
    IN FloatAdd(FloatAdd(delta_component, duration_component), reliability_component)

\* faulty variant: the duration is measured against REFRACTORY_MS
calculateConfidenceByRefractory(d) ==
    LET delta_component ==
            FloatMul(<<1, 2>>, FloatQuot(FloatDiv(d.delta_cm, CmUnit),
                                         FloatMax(<<1, 10>>, <<TRIGGER_DELTA_CM, 1>>)))
        duration_component ==
            FloatMul(<<3, 10>>, FloatQuot(<<d.duration_ms, 1>>,
                                          FloatMax(<<1, 1>>, <<REFRACTORY_MS, 1>>)))
        reliability_component ==
            FloatMul(<<1, 5>>, FloatClamp(d.success_rate, <<0, 1>>, <<1, 1>>))
    IN FloatMin(<<1, 1>>,
                FloatAdd(FloatAdd(delta_component, duration_component),
                         reliability_component))

\* Telemetry::calculateConfidence
calculateConfidence(d) ==
    LET delta_component ==
            FloatMul(<<1, 2>>, FloatQuot(FloatDiv(d.delta_cm, CmUnit),
                                         FloatMax(<<1, 10>>, <<TRIGGER_DELTA_CM, 1>>)))
        duration_component ==
            FloatMul(<<3, 10>>, FloatQuot(<<d.duration_ms, 1>>,
                                          FloatMax(<<1, 1>>, <<HOLD_MS, 1>>)))
        reliability_component ==
            FloatMul(<<1, 5>>, FloatClamp(d.success_rate, <<0, 1>>, <<1, 1>>))
    IN FloatMin(<<1, 1>>,
                FloatAdd(FloatAdd(delta_component, duration_component),
                         reliability_component))

\* Telemetry::publishJSON: the record is handed to the MQTT client only when
\* the publisher exists and is connected
publishJSON(outbox, subtopic, mqtt_connected) ==
    IF mqtt_connected THEN Append(outbox, subtopic) ELSE outbox

\* Telemetry::maybeEmitPeriodic
maybeEmitPeriodic(outbox, d, mqtt_connected) ==
    publishJSON(outbox, "status", mqtt_connected)

\* faulty variant: a collection also reports the arrival that preceded it
PublishArrivalWithCollection(d, mqtt_connected) ==
    LET o1 == IF d.mail_detected \/ d.mail_collected
              THEN publishJSON(<<>>, "events/mail_drop", mqtt_connected) ELSE <<>>
        o2 == IF d.mail_collected
              THEN publishJSON(o1, "events/mail_collected", mqtt_connected) ELSE o1
    IN maybeEmitPeriodic(o2, d, mqtt_connected)

\* Telemetry::Publish: the subtopics handed to the MQTT client, in order
Publish(d, mqtt_connected) ==
    LET o1 == IF d.mail_detected
              THEN publishJSON(<<>>, "events/mail_drop", mqtt_connected) ELSE <<>>
        o2 == IF d.mail_collected
              THEN publishJSON(o1, "events/mail_collected", mqtt_connected) ELSE o1
    IN maybeEmitPeriodic(o2, d, mqtt_connected)

\* ------------------------------------------------------------------- state
VARIABLES
    proc,     \* the continuously living Processor object
    data,     \* the DistanceData returned by its last Process call
    now,      \* timestamp (us) of the last Process call
    calls,    \* number of Process calls made
    rtc,      \* StateContext in retained storage of the capture/restore run
    rdata,    \* DistanceData returned by the last call of the capture/restore run
    recent,   \* the last min(calls, FILTER_WINDOW) raw samples, oldest first
    obs,      \* observations of the run so far (history, not program state)
    rtc_store, \* the other fields of RtcStore (processor_state is rtc)
    sent      \* what the last wake cycle decided and handed to the transport

vars == <<proc, data, now, calls, rtc, rdata, recent, obs, rtc_store, sent,
          limbs>>

ctx == proc.ctx

\* a timestamp field of obs is -1 until the event it records has happened
ObsInit ==
    [allBelow |-> TRUE,      \* every call so far saw 0 < filtered < trigger
     firstTs |-> NoTime,   \* timestamp of the first call
     arrivals |-> 0,         \* mail_detected results so far
     arrivalTs |-> NoTime, \* timestamp of the last mail_detected result
     collections |-> 0,      \* mail_collected results so far
     notReleasedTs |-> NoTime, \* last call that saw 0 < filtered <= empty
     allValid |-> TRUE,      \* every raw sample so far was valid (> 0)
     suppressed |-> 0,       \* occluded calls made in EMPTY during refractory
     pre |-> "EMPTY",        \* current_state before the last call
     preOccluding |-> FALSE, \* occluding before the last call
     allInvalid |-> TRUE,    \* every raw sample so far was invalid (<= 0)
     valid |-> 0,            \* valid (> 0) raw samples so far
     recomputes |-> 0,       \* calls so far that set last_update_us
     halvings |-> 0,         \* calls so far that did not leave total_count one higher
     preTotal |-> 0,         \* total_count before the last call
     preOk |-> 0,            \* ok_count before the last call
     preDecay |-> 0,         \* ms_since_decay before the last call
     preUpdate |-> TimeOf(0), \* last_update_us before the last call
     heldSince |-> NoTime,   \* first call of the current run of occluded calls in EMPTY
     rel |-> [active |-> FALSE, firstTs |-> NoTime, collections |-> 0,
              collTs |-> NoTime, emptyTs |-> NoTime, arrivals |-> 0]]

\* the release run observed from a call made in FULL with the timer not
\* running: it starts with the first call that sees filtered > empty and is
\* abandoned by the first call that does not
RelNext(rel, p, r, t) ==
    LET f == r.data.filtered_cm
        above == f > p.empty_thresh_cm
    IN IF ~above THEN ObsInit.rel
       ELSE IF ~rel.active
       THEN IF p.ctx.current_state = "FULL" /\ ~p.ctx.occluding
            THEN [active |-> TRUE, firstTs |-> t,
                  collections |-> IF r.data.mail_collected THEN 1 ELSE 0,
                  collTs |-> IF r.data.mail_collected THEN t ELSE NoTime,
                  emptyTs |-> NoTime, arrivals |-> 0]
            ELSE rel
       ELSE [rel EXCEPT
               !.collections = IF r.data.mail_collected THEN @ + 1 ELSE @,
               !.collTs = IF r.data.mail_collected THEN t ELSE @,
               !.emptyTs = IF p.ctx.current_state = "EMPTIED"
                              /\ r.proc.ctx.current_state = "EMPTY" THEN t ELSE @,
               !.arrivals = IF r.data.mail_detected THEN @ + 1 ELSE @]

\* the observations after a call made at t on processor p with result r, when
\* o were the observations and n the number of calls before it
ObsNextFrom(o, n, p, r, t) ==
    LET f == r.data.filtered_cm IN
    [allBelow |-> o.allBelow /\ 0 < f /\ f < p.trigger_thresh_cm,
     firstTs |-> IF n = 0 THEN t ELSE o.firstTs,
     arrivals |-> IF r.data.mail_detected THEN o.arrivals + 1 ELSE o.arrivals,
     arrivalTs |-> IF r.data.mail_detected THEN t ELSE o.arrivalTs,
     collections |-> IF r.data.mail_collected THEN o.collections + 1 ELSE o.collections,
     notReleasedTs |-> IF 0 < f /\ f <= p.empty_thresh_cm THEN t ELSE o.notReleasedTs,
     allValid |-> o.allValid /\ r.data.raw_cm > 0,
     suppressed |-> IF /\ p.ctx.current_state = "EMPTY"
                       /\ TimeBefore(t, p.ctx.refractory_until_us)
                       /\ 0 < f /\ f < p.trigger_thresh_cm
                    THEN o.suppressed + 1 ELSE o.suppressed,
     pre |-> p.ctx.current_state,
     preOccluding |-> p.ctx.occluding,
     allInvalid |-> o.allInvalid /\ r.data.raw_cm <= 0,
     valid |-> IF r.data.raw_cm > 0 THEN o.valid + 1 ELSE o.valid,
     recomputes |-> IF r.proc.ctx.last_update_us = t /\ p.ctx.last_update_us # t
                    THEN o.recomputes + 1 ELSE o.recomputes,
     halvings |-> IF r.proc.ctx.total_count # p.ctx.total_count + 1
                  THEN o.halvings + 1 ELSE o.halvings,
     preTotal |-> p.ctx.total_count,
     preOk |-> p.ctx.ok_count,
     preDecay |-> p.ctx.ms_since_decay,
     preUpdate |-> p.ctx.last_update_us,
     heldSince |-> IF f <= 0 THEN o.heldSince
                   ELSE IF /\ p.ctx.current_state = "EMPTY"
                           /\ f < p.trigger_thresh_cm
                           /\ ~TimeBefore(t, p.ctx.refractory_until_us)
                        THEN (IF o.heldSince = NoTime THEN t ELSE o.heldSince)
                        ELSE NoTime,
     rel |-> RelNext(o.rel, p, r, t)]

ObsNext(p, r, t) == ObsNextFrom(obs, calls, p, r, t)

\* no decision taken, nothing handed to the transport; boots counts the fresh
\* boots so far and lost the events of cycles whose connection failed
NothingSent ==
    [crucial_event |-> FALSE, periodic_update |-> FALSE, attempted |-> FALSE,
     wifi_connected |-> FALSE, mqtt_connected |-> FALSE, published |-> <<>>,
     confidence |-> <<0, 1>>, boots |-> 0, lost |-> 0]

\* the state after construction, before the first Process call
Constructed ==
    /\ proc = ProcessorNew
    /\ data = ZeroData
    /\ now = TimeOf(0)
    /\ calls = 0
    /\ rtc = GetContext(ProcessorNew)
    /\ rdata = ZeroData
    /\ recent = <<>>
    /\ obs = ObsInit
    /\ rtc_store = [boot_count |-> 0, last_telemetry_time_sec |-> 0,
                    virtual_time_us |-> TimeOf(0)]
    /\ sent = NothingSent

Init == limbs = 1 /\ Constructed

\* one Process call with timestamp t on the living processor and, side by
\* side, on a processor restored from the context captured after the previous
\* call
ProcessAt(raw_cm, t, max_calls) ==
    /\ calls < max_calls
    /\ LET raw == raw_cm * CmUnit
           r == ProcessCall(proc, raw, t)
           rr == ProcessCall(ProcessorRestore(rtc), raw, t)
       IN /\ proc' = r.proc
          /\ data' = r.data
          /\ now' = t
          /\ calls' = calls + 1
          /\ rtc' = GetContext(rr.proc)
          /\ rdata' = rr.data
          /\ recent' = IF Len(recent) < FILTER_WINDOW THEN Append(recent, raw)
                       ELSE Append(Tail(recent), raw)
          /\ obs' = ObsNext(proc, r, t)
    /\ UNCHANGED <<rtc_store, sent, limbs>>

\* the same call made gap_us after the previous one
Process(raw_cm, gap_us, max_calls) ==
    ProcessAt(raw_cm, TimeAfter(now, gap_us), max_calls)

\* Telemetry::calculateConfidence applied to a result with the given
\* delta_cm (in units of 1/CmUnit cm), duration_ms and success_rate
Confidence(delta, duration, rate) ==
    /\ data' = [ZeroData EXCEPT !.delta_cm = delta, !.duration_ms = duration,
                                !.success_rate = rate]
    /\ sent' = [sent EXCEPT !.confidence = calculateConfidence(data')]
    /\ UNCHANGED <<proc, now, calls, rtc, rdata, recent, obs, rtc_store, limbs>>

NextSm == \E in \in InputsSm : Process(in[1], in[2], MaxCalls)
SpecSm == Init /\ [][NextSm]_vars

NextTimed == \E in \in InputsTimed : Process(in[1], in[2], MaxCallsTimed)
SpecTimed == Init /\ [][NextTimed]_vars

NextFilter == \E in \in InputsFilter : Process(in[1], in[2], MaxCallsFilter)
SpecFilter == Init /\ [][NextFilter]_vars

NextQuality == \E in \in InputsQuality : Process(in[1], in[2], MaxCallsQuality)
SpecQuality == Init /\ [][NextQuality]_vars

\* faulty variant: a timer wake-up that does not advance the virtual clock
BootedNoSleep(is_fresh_boot) ==
    IF is_fresh_boot
    THEN [boot_count |-> 0, processor_state |-> GetContext(ProcessorNew),
          last_telemetry_time_sec |-> 0, virtual_time_us |-> TimeOf(0)]
    ELSE [boot_count |-> rtc_store.boot_count + 1, processor_state |-> rtc,
          last_telemetry_time_sec |-> rtc_store.last_telemetry_time_sec,
          virtual_time_us |-> rtc_store.virtual_time_us]

\* faulty variant: a fresh boot that restarts the clock and keeps the context
BootedKeepContext(is_fresh_boot) ==
    IF is_fresh_boot
    THEN [boot_count |-> 0, processor_state |-> rtc,
          last_telemetry_time_sec |-> 0, virtual_time_us |-> TimeOf(0)]
    ELSE [boot_count |-> rtc_store.boot_count + 1, processor_state |-> rtc,
          last_telemetry_time_sec |-> rtc_store.last_telemetry_time_sec,
          virtual_time_us |-> TimeAfter(rtc_store.virtual_time_us, DEEP_SLEEP_US)]

\* app_main up to the restore: RtcStore once the wake-up cause is handled; a
\* fresh boot overwrites every field, a timer wake-up finds what the previous
\* cycle left and adds the sleep to the virtual clock
Booted(is_fresh_boot) ==
    IF is_fresh_boot
    THEN [boot_count |-> 0, processor_state |-> GetContext(ProcessorNew),
          last_telemetry_time_sec |-> 0, virtual_time_us |-> TimeOf(0)]
    ELSE [boot_count |-> rtc_store.boot_count + 1, processor_state |-> rtc,
          last_telemetry_time_sec |-> rtc_store.last_telemetry_time_sec,
          virtual_time_us |-> TimeAfter(rtc_store.virtual_time_us, DEEP_SLEEP_US)]

\* app_main: the virtual time handed to Process in this wake cycle
VirtualTime(is_fresh_boot) == Booted(is_fresh_boot).virtual_time_us

\* app_main: Process on the processor restored from retained storage
Processed(raw_cm, is_fresh_boot) ==
    ProcessCall(ProcessorRestore(Booted(is_fresh_boot).processor_state),
                raw_cm * CmUnit, VirtualTime(is_fresh_boot))

\* faulty variant: a failed connection leaves the wake cycle before the save
SaveStateUnlessFailed(raw_cm, is_fresh_boot) ==
    /\ rdata' = Processed(raw_cm, is_fresh_boot).data
    /\ rtc' = IF sent'.attempted /\ ~sent'.wifi_connected
              THEN Booted(is_fresh_boot).processor_state
              ELSE GetContext(Processed(raw_cm, is_fresh_boot).proc)

\* app_main: "Save State Back to RTC"
SaveState(raw_cm, is_fresh_boot) ==
    /\ rdata' = Processed(raw_cm, is_fresh_boot).data
    /\ rtc' = GetContext(Processed(raw_cm, is_fresh_boot).proc)

\* app_main: one wake cycle, with the wake-up cause, the outcome of the Wi-Fi
\* connection and whether the MQTT client is connected when Publish runs; the
\* first cycle is a fresh boot. Side by side the living processor, which a
\* fresh boot replaces by a new one, is fed the same sample and timestamp and
\* never transmits
WakeCycle(raw_cm, is_fresh_boot, wifi_ok, mqtt_ok, max_cycles) ==
    /\ calls = 0 => is_fresh_boot
    /\ IF is_fresh_boot THEN sent.boots < MaxBoots ELSE calls < max_cycles
    /\ LET store == Booted(is_fresh_boot)
           d == Processed(raw_cm, is_fresh_boot).data
           crucial_event == d.mail_detected \/ d.mail_collected
           virtual_time_sec == TimeSec(store.virtual_time_us)
           periodic_update ==
               virtual_time_sec >= store.last_telemetry_time_sec
                                   + HEARTBEAT_INTERVAL_SEC
           attempted == crucial_event \/ periodic_update
           connected == attempted /\ wifi_ok
           wake_duration_us ==
               AwakeUs + (IF ~attempted THEN 0
                          ELSE IF wifi_ok THEN PublishUs ELSE WifiTimeoutUs)
       IN /\ sent' = [crucial_event |-> crucial_event,
                      periodic_update |-> periodic_update,
                      attempted |-> attempted,
                      wifi_connected |-> connected,
                      mqtt_connected |-> connected /\ mqtt_ok,
                      published |-> IF connected THEN Publish(d, mqtt_ok) ELSE <<>>,
                      confidence |-> IF connected /\ d.mail_detected
                                     THEN calculateConfidence(d) ELSE <<0, 1>>,
                      boots |-> IF is_fresh_boot THEN sent.boots + 1
                                ELSE sent.boots,
                      lost |-> IF crucial_event /\ ~connected THEN sent.lost + 1
                               ELSE sent.lost]
          /\ rtc_store' =
                [boot_count |-> store.boot_count,
                 last_telemetry_time_sec |->
                     IF connected /\ periodic_update THEN virtual_time_sec
                     ELSE store.last_telemetry_time_sec,
                 virtual_time_us |-> TimeAfter(store.virtual_time_us, wake_duration_us)]
    /\ SaveState(raw_cm, is_fresh_boot)
    /\ LET raw == raw_cm * CmUnit
           t == VirtualTime(is_fresh_boot)
           p == IF is_fresh_boot THEN ProcessorNew ELSE proc
           r == ProcessCall(p, raw, t)
       IN /\ proc' = r.proc
          /\ data' = r.data
          /\ now' = t
          /\ calls' = IF is_fresh_boot THEN 1 ELSE calls + 1
          /\ recent' = IF is_fresh_boot THEN <<raw>>
                       ELSE IF Len(recent) < FILTER_WINDOW THEN Append(recent, raw)
                       ELSE Append(Tail(recent), raw)
          /\ obs' = IF is_fresh_boot THEN ObsNextFrom(ObsInit, 0, p, r, t)
                    ELSE ObsNext(p, r, t)
    /\ UNCHANGED limbs

\* the MQTT client can only be connected if Wi-Fi is
NextMain ==
    \E raw_cm \in InputsMain, is_fresh_boot \in BOOLEAN, wifi_ok \in BOOLEAN :
        \E mqtt_ok \in {FALSE, wifi_ok} :
            WakeCycle(raw_cm, is_fresh_boot, wifi_ok, mqtt_ok, MaxCycles)
SpecMain == Init /\ [][NextMain]_vars

NextDuty == \E in \in InputsDuty : Process(in[1], in[2], MaxCallsDuty)
SpecDuty == Init /\ [][NextDuty]_vars

\* wake cycles of an idle mailbox from the fresh boot until the heartbeat is
\* due, HEARTBEAT_INTERVAL_SEC of virtual time later; the timestamps are held
\* in limbs
InitHeartbeat == limbs = 2 /\ Constructed

NextHeartbeat ==
    \E raw_cm \in InputsHeartbeat, wifi_ok \in BOOLEAN :
        \E mqtt_ok \in {FALSE, wifi_ok} :
            WakeCycle(raw_cm, calls = 0, wifi_ok, mqtt_ok, MaxCyclesHeartbeat)
SpecHeartbeat == InitHeartbeat /\ [][NextHeartbeat]_vars

\* the same wake cycles, where the power may also be lost while the heartbeat
\* is due: the next wake-up is then a fresh boot
NextHeartbeatReset ==
    \E raw_cm \in InputsHeartbeat, is_fresh_boot, wifi_ok \in BOOLEAN :
        \E mqtt_ok \in {FALSE, wifi_ok} :
            /\ is_fresh_boot => (calls = 0 \/ sent.periodic_update)
            /\ WakeCycle(raw_cm, is_fresh_boot, wifi_ok, mqtt_ok, MaxCyclesHeartbeat)

SpecHeartbeatReset == InitHeartbeat /\ [][NextHeartbeatReset]_vars

\* Process is a public method whose caller supplies the timestamp: calls whose
\* timestamps are 100 ms, 300 ms or 2^32 ms + 100 ms apart, held in limbs
MaxCallsLongGap == 4

InputsLongGap == {20, 39} \X {<<0, 0, 100, 0>>, <<0, 0, 300, 0>>, <<1, 0, 100, 0>>}

InitLongGap == limbs = 2 /\ Constructed

NextLongGap ==
    \E in \in InputsLongGap : ProcessAt(in[1], TimePlus(now, in[2]), MaxCallsLongGap)

SpecLongGap == InitLongGap /\ [][NextLongGap]_vars

\* calls HOLD_MS apart, and occluded calls that with two calls HOLD_MS apart
\* span exactly the refractory window: long enough for a second arrival
MaxCallsOrder == 9

RefractoryGapUs == (REFRACTORY_MS - 2 * HOLD_MS) * 1000

InputsOrder == ({20, 39} \X {HoldGapUs}) \cup {<<20, RefractoryGapUs>>}

NextOrder == \E in \in InputsOrder : Process(in[1], in[2], MaxCallsOrder)

SpecOrder == Init /\ [][NextOrder]_vars

\* runs that, after PrefixCalls calls HOLD_MS apart with any sample, see only
\* the occluded sample, with timestamps DEEP_SLEEP_US or 2^32 ms apart, for as
\* long as the state is EMPTY; the caller goes on calling (weak fairness)
PrefixCalls == 5
MaxCallsLive == 13

GapsLive == {<<0, 0, DEEP_SLEEP_US \div 1000, 0>>, <<1, 0, 0, 0>>}

NextLive ==
    \/ /\ calls < PrefixCalls
       /\ \E raw_cm \in {20, 39} : Process(raw_cm, HoldGapUs, MaxCallsLive)
    \/ /\ calls >= PrefixCalls
       /\ ctx.current_state = "EMPTY"
       /\ \E g \in GapsLive : ProcessAt(20, TimePlus(now, g), MaxCallsLive)

\* NextLive is enabled exactly when CanCallLive holds, and its steps are the
\* steps that add one to calls
CanCallLive ==
    /\ calls < MaxCallsLive
    /\ calls < PrefixCalls \/ ctx.current_state = "EMPTY"

CallMade == CanCallLive /\ calls' = calls + 1

SpecLive == InitLongGap /\ [][NextLive]_vars /\ WF_calls(CallMade)

NextConfidence ==
    \E delta \in InputsDelta, duration \in InputsDuration, rate \in InputsRate :
        Confidence(delta, duration, rate)
SpecConfidence == Init /\ [][NextConfidence]_vars

Next == NextSm
Spec == SpecSm

TypeOK ==
    /\ limbs \in {1, 2}
    /\ ctx.current_state \in States
    /\ ctx.w_idx \in 0..(FILTER_WINDOW - 1)
    /\ ctx.w_count \in 0..FILTER_WINDOW
    /\ ctx.ok_count <= ctx.total_count
    /\ ctx.state_change_us <= now
    /\ ctx.last_update_us <= now
    /\ ctx.occlusion_start_us <= now

\* ------------------------------------------------------------- properties
HoldUs == HOLD_MS * 1000
RefractoryUs == REFRACTORY_MS * 1000

NoEvent(d) == ~d.mail_detected /\ ~d.mail_collected /\ d.delta_cm = 0 /\ d.duration_ms = 0

\* C1: in a run from a cold start in which every Process call saw a valid
\* filtered value below the trigger threshold, no arrival is reported before
\* HOLD_MS have passed since the first call; the first call at or after that
\* reports the only arrival of the run, moves the state to HAS_MAIL and sets
\* refractory_until_us to its timestamp plus REFRACTORY_MS * 1000.
C1_OneArrivalAfterHold ==
    (calls > 0 /\ obs.allBelow) =>
        IF now - obs.firstTs < HoldUs
        THEN /\ obs.arrivals = 0
             /\ ctx.current_state = "EMPTY"
             /\ ~data.mail_detected
        ELSE /\ obs.arrivals = 1
             /\ obs.arrivalTs - obs.firstTs >= HoldUs
             /\ ctx.refractory_until_us = obs.arrivalTs + RefractoryUs
             /\ ctx.current_state \in {"HAS_MAIL", "FULL"}
             /\ data.mail_detected <=> now = obs.arrivalTs
             /\ data.mail_detected =>
                    /\ obs.pre = "EMPTY"
                    /\ ctx.current_state = "HAS_MAIL"
                    /\ data.state = "HAS_MAIL"

\* the arrival fired on the fourth call of an all-occluded run, after three
\* calls that had not yet reached the hold time
C1_Witness ==
    /\ obs.allBelow
    /\ data.mail_detected
    /\ calls = 4
    /\ now - obs.firstTs = 3 * ShortGapUs

\* C2: a call that reports mail_collected with duration d was preceded by no
\* call, within the d milliseconds before it, that saw a valid filtered value
\* at or below the empty threshold.
C2_CollectionAfterContinuousRelease ==
    data.mail_collected => obs.notReleasedTs < now - data.duration_ms * 1000

\* C3: a call made in EMPTY with a timestamp before refractory_until_us
\* reports no arrival, leaves the state EMPTY and leaves the occlusion timer
\* not running; every arrival is reported at least HOLD_MS after the
\* refractory window that was open or last closed before it.
C3_RefractorySuppressesArrival ==
    [][ /\ (ctx.current_state = "EMPTY" /\ now' < ctx.refractory_until_us) =>
              /\ ~data'.mail_detected
              /\ proc'.ctx.current_state = "EMPTY"
              /\ ~proc'.ctx.occluding
        /\ data'.mail_detected => now' >= ctx.refractory_until_us + HoldUs ]_vars

\* a second arrival was reported after an occluded call had been suppressed
\* in EMPTY during the refractory window opened by EMPTIED -> EMPTY
C3_Witness ==
    /\ obs.suppressed >= 1
    /\ obs.arrivals = 2
    /\ data.mail_detected

\* C4: a call made in HAS_MAIL whose (valid) filtered value is below the full
\* threshold moves the state to FULL on that call, reports no event and sets
\* state_change_us to its timestamp.
C4_ImmediateFull ==
    [][ ( /\ ctx.current_state = "HAS_MAIL"
          /\ 0 < data'.filtered_cm
          /\ data'.filtered_cm < proc.full_thresh_cm ) =>
              /\ proc'.ctx.current_state = "FULL"
              /\ data'.state = "FULL"
              /\ NoEvent(data')
              /\ proc'.ctx.state_change_us = now' ]_vars

\* FULL was entered on the call right after the arrival, less than HOLD_MS
\* after it
C4_Witness ==
    /\ ctx.current_state = "FULL"
    /\ obs.pre = "HAS_MAIL"
    /\ now - obs.arrivalTs = ShortGapUs
    /\ ctx.state_change_us = now

\* C5: in a run that starts with a call made in FULL with the timer not
\* running and in which every call sees a filtered value above the empty
\* threshold: before HOLD_MS have passed since the first such call the state
\* stays FULL without event; the first call at or after that reports the only
\* collection and moves the state to EMPTIED; the first call at least HOLD_MS
\* after the collection moves the state to EMPTY and sets refractory_until_us
\* to its timestamp plus REFRACTORY_MS * 1000; no arrival is reported.
C5_CollectionThenEmpty ==
    LET rel == obs.rel IN
    rel.active =>
        /\ rel.arrivals = 0
        /\ IF now - rel.firstTs < HoldUs
           THEN /\ rel.collections = 0
                /\ ctx.current_state = "FULL"
                /\ NoEvent(data)
           ELSE /\ rel.collections = 1
                /\ rel.collTs - rel.firstTs >= HoldUs
                /\ data.mail_collected <=> now = rel.collTs
                /\ IF now - rel.collTs < HoldUs
                   THEN /\ ctx.current_state = "EMPTIED"
                        /\ rel.emptyTs < 0
                   ELSE /\ ctx.current_state = "EMPTY"
                        /\ rel.emptyTs - rel.collTs >= HoldUs
                        /\ ctx.refractory_until_us = rel.emptyTs + RefractoryUs
                        /\ (obs.pre = "EMPTIED") <=> (now = rel.emptyTs)
                        /\ NoEvent(data)

\* the release run went all the way: collection from FULL, EMPTIED, EMPTY
C5_Witness ==
    /\ obs.rel.active
    /\ obs.rel.collections = 1
    /\ ctx.current_state = "EMPTY"
    /\ now = obs.rel.emptyTs

\* the state-machine part of a context
SmFields(c) ==
    <<c.current_state, c.occluding, c.occlusion_start_us,
      c.state_change_us, c.refractory_until_us>>

\* C6 as stated: every call made in EMPTIED at least HOLD_MS after the entry
\* into EMPTIED moves the state to EMPTY and sets refractory_until_us to its
\* timestamp plus REFRACTORY_MS * 1000, whatever the sample and the window.
C6_EmptiedPurelyTimeGated ==
    [][ (ctx.current_state = "EMPTIED" /\ now' - ctx.state_change_us >= HoldUs) =>
              /\ proc'.ctx.current_state = "EMPTY"
              /\ proc'.ctx.refractory_until_us = now' + RefractoryUs ]_vars

\* C6 as amended: the same for every call whose filtered value after the
\* filter update is positive (the raw sample itself may be invalid); before
\* the hold time has passed such a call leaves the state EMPTIED.
C6_EmptiedTimeGatedWhenValid ==
    [][ (ctx.current_state = "EMPTIED" /\ data'.filtered_cm > 0) =>
            IF now' - ctx.state_change_us >= HoldUs
            THEN /\ proc'.ctx.current_state = "EMPTY"
                 /\ proc'.ctx.state_change_us = now'
                 /\ proc'.ctx.refractory_until_us = now' + RefractoryUs
                 /\ NoEvent(data')
            ELSE /\ SmFields(proc'.ctx) = SmFields(ctx)
                 /\ NoEvent(data') ]_vars

\* EMPTIED -> EMPTY was taken by a call that supplied an invalid sample while
\* the window still held a valid one
C6_Witness ==
    /\ obs.pre = "EMPTIED"
    /\ ctx.current_state = "EMPTY"
    /\ data.raw_cm <= 0
    /\ data.filtered_cm > 0
    /\ ctx.refractory_until_us = now + RefractoryUs

\* C7: a call whose filtered value after the filter update is non-positive
\* leaves current_state, occluding, occlusion_start_us, state_change_us and
\* refractory_until_us unchanged, reports no event, and returns the state
\* the processor had before the call.
C7_InvalidIsNoOp ==
    [][ data'.filtered_cm <= 0 =>
            /\ SmFields(proc'.ctx) = SmFields(ctx)
            /\ NoEvent(data')
            /\ data'.state = ctx.current_state ]_vars

\* the window ran empty of valid samples while the mailbox was FULL with the
\* occlusion timer running
C7_Witness ==
    /\ data.filtered_cm <= 0
    /\ calls > FILTER_WINDOW
    /\ ctx.current_state = "FULL"
    /\ ctx.occluding

\* C8: after every call, the run that restores a fresh processor from the
\* captured context before each call has returned the same DistanceData and
\* holds the same context as the continuously living processor.
C8_CaptureRestoreLossless ==
    /\ rdata = data
    /\ rtc = GetContext(proc)

\* equal results on a call that fired a collection out of a timer started by
\* an earlier call (the timer state crossed a capture/restore)
C8_Witness ==
    /\ rdata.mail_collected
    /\ rtc.current_state = "EMPTIED"
    /\ rtc.occlusion_start_us < now
    /\ calls >= 4

\* ------------------------------------------------------- median reference
\* the k-th element of seq sorted ascending, found by rank
KthSmallest(seq, k) ==
    CHOOSE v \in {seq[i] : i \in DOMAIN seq} :
        /\ Cardinality({i \in DOMAIN seq : seq[i] < v}) < k
        /\ Cardinality({i \in DOMAIN seq : seq[i] <= v}) >= k

\* the median of a non-empty sequence: the middle element of the sorted
\* sequence, or the mean of its two central elements
MedianOf(seq) ==
    LET n == Len(seq) IN
    IF n % 2 = 1 THEN KthSmallest(seq, (n + 1) \div 2)
    ELSE (KthSmallest(seq, n \div 2) + KthSmallest(seq, n \div 2 + 1)) \div 2

Positives(seq) == SelectSeq(seq, LAMBDA v : v > 0)

Min(a, b) == IF a < b THEN a ELSE b

\* C9: while every sample fed since the cold start was valid, from the
\* FILTER_WINDOW-th call on the filtered value stored and returned by each
\* call is the median of the last FILTER_WINDOW samples.
C9_MedianOfFullWindow ==
    (obs.allValid /\ calls >= FILTER_WINDOW) =>
        /\ Len(recent) = FILTER_WINDOW
        /\ ctx.filtered_cm = MedianOf(recent)
        /\ data.filtered_cm = MedianOf(recent)

\* the ring has wrapped, the last FILTER_WINDOW samples are not in ascending
\* or descending order and hold three different values
C9_Witness ==
    /\ obs.allValid
    /\ calls >= FILTER_WINDOW + 2
    /\ Cardinality({recent[i] : i \in DOMAIN recent}) >= 3
    /\ recent[1] > recent[2]
    /\ recent[2] < recent[3]
    /\ ctx.filtered_cm # recent[3]

\* C10: after every call the filtered value is the median of the positive
\* values among the last min(calls, FILTER_WINDOW) samples, and -1 if none
\* of them is positive.
C10_MedianOfValidSubset ==
    calls > 0 =>
        /\ Len(recent) = Min(calls, FILTER_WINDOW)
        /\ ctx.filtered_cm = IF Positives(recent) = <<>> THEN -1 * CmUnit
                             ELSE MedianOf(Positives(recent))
        /\ data.filtered_cm = ctx.filtered_cm

\* a wrapped window holding a negative sample, a zero sample and an even
\* number of valid samples whose two central values differ
C10_Witness ==
    /\ calls > FILTER_WINDOW
    /\ \E i \in DOMAIN recent : recent[i] < 0
    /\ \E i \in DOMAIN recent : recent[i] = 0
    /\ Len(Positives(recent)) = 2
    /\ ctx.filtered_cm > 0
    /\ \A i \in DOMAIN recent : recent[i] # ctx.filtered_cm

\* C11: while every sample fed since cold start is invalid (the sentinel or
\* any value <= 0), the filtered value is the sentinel -1, the state is
\* EMPTY and no arrival or collection has been reported
C11_AllInvalidStaysEmpty ==
    obs.allInvalid =>
        /\ ctx.filtered_cm = -1 * CmUnit
        /\ (calls > 0 => data.filtered_cm = -1 * CmUnit)
        /\ ctx.current_state = "EMPTY"
        /\ data.state = "EMPTY"
        /\ obs.arrivals = 0
        /\ obs.collections = 0

\* more invalid samples than the window holds, zeros and sentinels among them
C11_Witness ==
    /\ obs.allInvalid
    /\ calls > FILTER_WINDOW
    /\ \E i \in 1..Len(recent) : recent[i] = 0
    /\ \E i \in 1..Len(recent) : recent[i] = -1 * CmUnit
    /\ now - obs.firstTs >= HoldUs

\* the last call set last_update_us, i.e. it recomputed the rate (timestamps
\* increase strictly, so no earlier call can have stored the value of now)
Recomputed == calls > 0 /\ ctx.last_update_us = now

\* the last call halved the counters: total_count is not one higher than before
HalvedNow == calls > 0 /\ ctx.total_count # obs.preTotal + 1

\* no call before the last one halved the counters
NoDecayBefore == obs.halvings = (IF HalvedNow THEN 1 ELSE 0)

\* C12 as stated: after T calls of which K were valid and no decay, the rate
\* returned by the T-th call is K/T
C12_RateIsValidShare ==
    (calls > 0 /\ obs.halvings = 0) =>
        data.success_rate = FloatDiv(obs.valid, calls)

\* C12 amended: the T-th call returns K/T when it recomputes the rate (its
\* timestamp is at least 1000 ms after last_update_us) and no earlier call
\* decayed the counters; before the first recomputation it returns 0
C12_RateIsValidShareWhenRecomputed ==
    /\ (Recomputed /\ NoDecayBefore) =>
           /\ data.success_rate = FloatDiv(obs.valid, calls)
           /\ ctx.success_rate = data.success_rate
    /\ (calls > 0 /\ obs.recomputes = 0) => data.success_rate = <<0, 1>>

\* a recomputing call after a mixed history, and a call before any recomputation
C12_Witness ==
    /\ Recomputed /\ NoDecayBefore
    /\ calls >= 3
    /\ 0 < obs.valid /\ obs.valid < calls

\* C13 as stated: once a call's timestamp is at least 60 000 ms after the
\* first call's, the counters have been halved at least once
C13_HalvedAfterDecayPeriod ==
    (calls > 0 /\ now - obs.firstTs >= 60000 * 1000) => obs.halvings >= 1

\* C13 amended: the counters have been halved at least once as soon as a
\* call that recomputes the rate has a timestamp at least 60 000 ms, plus one
\* millisecond per recomputation made so far, after the first call's
C13_HalvedAtRecomputationAfterDecayPeriod ==
    (Recomputed /\ now - obs.firstTs >= 60000 * 1000 + obs.recomputes * 1000)
        => obs.halvings >= 1

\* the first halving happens at a recomputing call, reached by several
\* recomputations that add up to the decay period
C13_Witness ==
    /\ Recomputed /\ HalvedNow
    /\ obs.halvings = 1
    /\ obs.recomputes >= 3
    /\ now - obs.firstTs >= 60000 * 1000 + obs.recomputes * 1000

\* C14: a call whose timestamp is less than 1000 ms after last_update_us
\* leaves success_rate, ms_since_decay and last_update_us as they were and
\* returns the rate published before
C14_RateFrame ==
    [][now' - ctx.last_update_us < 1000 * 1000 =>
          /\ proc'.ctx.success_rate = ctx.success_rate
          /\ proc'.ctx.ms_since_decay = ctx.ms_since_decay
          /\ proc'.ctx.last_update_us = ctx.last_update_us
          /\ data'.success_rate = ctx.success_rate]_vars

\* a call that did not recompute returned a rate that differs from the
\* quotient of the counters it left behind
C14_Witness ==
    /\ calls >= 2
    /\ ~Recomputed
    /\ ctx.last_update_us > 0
    /\ data.success_rate # FloatDiv(ctx.ok_count, ctx.total_count)
    /\ data.success_rate # <<0, 1>>

\* a rate n/d within [0, 1]
InUnitInterval(rate) == 0 <= rate[1] /\ rate[1] <= rate[2] /\ rate[2] > 0

\* C15 as stated: ok_count <= total_count, the published rate is within
\* [0, 1], and it is 0 whenever total_count is 0
C15_CountersAndRate ==
    /\ ctx.ok_count <= ctx.total_count
    /\ InUnitInterval(ctx.success_rate)
    /\ InUnitInterval(data.success_rate)
    /\ ctx.total_count = 0 => ctx.success_rate = <<0, 1>>

\* C15 amended: ok_count <= total_count and the published rate is within
\* [0, 1], in the living and in the restored run; the rate is 0 before the
\* first call, and when a call leaves total_count at 0 (a halving of 1) the
\* rate is the quotient taken before the halving: 1 for a valid sample, else 0
C15_CountersAndRateBeforeHalving ==
    /\ ctx.ok_count <= ctx.total_count
    /\ rtc.ok_count <= rtc.total_count
    /\ InUnitInterval(ctx.success_rate)
    /\ InUnitInterval(data.success_rate)
    /\ InUnitInterval(rtc.success_rate)
    /\ calls = 0 => ctx.success_rate = <<0, 1>>
    /\ (calls > 0 /\ ctx.total_count = 0) =>
           /\ HalvedNow /\ Recomputed
           /\ ctx.success_rate = IF data.raw_cm > 0 THEN <<1, 1>> ELSE <<0, 1>>

\* a halving has left total_count at 0 under a published rate of 1
C15_Witness ==
    /\ calls > 0
    /\ ctx.total_count = 0
    /\ ctx.success_rate = <<1, 1>>

\* C16: in the living run and in the run restored from retained storage
\* before every call, w_idx is within [0, FILTER_WINDOW) and w_count is the
\* number of samples added so far, saturated at FILTER_WINDOW (so it is at
\* most FILTER_WINDOW and never decreases)
C16_CursorAndCount ==
    \A c \in {ctx, rtc} :
        /\ c.w_idx \in 0..(FILTER_WINDOW - 1)
        /\ c.w_count <= FILTER_WINDOW
        /\ c.w_count = Min(calls, FILTER_WINDOW)

\* the cursor has wrapped around and the count has saturated
C16_Witness ==
    /\ calls > FILTER_WINDOW
    /\ rtc.w_idx = 1
    /\ rtc.w_count = FILTER_WINDOW

\* C17: for non-negative delta_cm, duration_ms and success_rate the
\* confidence is min(1, 0.5*delta/max(0.1, TRIGGER_DELTA_CM)
\* + 0.3*duration/max(1, HOLD_MS) + 0.2*clamp(rate, 0, 1)), within [0, 1];
\* the sum is taken here over one common denominator
C17_ConfidenceFormula ==
    LET rate == IF data.success_rate[1] > data.success_rate[2]
                THEN <<1, 1>> ELSE data.success_rate
        perDelta == 2 * CmUnit * TRIGGER_DELTA_CM
        perDuration == 10 * HOLD_MS
        perRate == 5 * rate[2]
        num == data.delta_cm * perDuration * perRate
               + 3 * data.duration_ms * perDelta * perRate
               + rate[1] * perDelta * perDuration
        den == perDelta * perDuration * perRate
    IN /\ sent.confidence = IF num >= den THEN <<1, 1>> ELSE FloatDiv(num, den)
       /\ InUnitInterval(sent.confidence)

\* a result whose components add up to more than 1, with a rate above 1
C17_Witness ==
    /\ data.delta_cm = 2 * TRIGGER_DELTA_CM * CmUnit
    /\ data.duration_ms = 2 * HOLD_MS
    /\ data.success_rate = <<3, 2>>
    /\ sent.confidence = <<1, 1>>

\* C18: the DistanceData of a wake cycle and the context it writes back to
\* retained storage are determined by the restored context, the sample and
\* the timestamp alone, whatever the Wi-Fi connection and the MQTT client
\* did, and they agree with the processor that never transmits (the restored
\* context is the retained one, or a new one on a fresh boot)
C18_TransportDoesNotAffectProcessing ==
    [][LET restored == IF rtc_store'.boot_count = 0
                       THEN GetContext(ProcessorNew) ELSE rtc
           r == ProcessCall(ProcessorRestore(restored), rdata'.raw_cm, now')
       IN /\ rdata' = r.data
          /\ rtc' = GetContext(r.proc)
          /\ rdata' = data'
          /\ rtc' = GetContext(proc')]_vars

\* a wake cycle reported an arrival, tried to connect and failed
C18_Witness ==
    /\ rdata.mail_detected
    /\ sent.attempted
    /\ ~sent.wifi_connected
    /\ rtc.current_state = "HAS_MAIL"

\* C19: a wake cycle that transmits because of an event while the heartbeat
\* is not due hands no status record to the MQTT client
C19_StatusOnlyWhenDue ==
    (sent.crucial_event /\ ~sent.periodic_update) =>
        \A i \in 1..Len(sent.published) : sent.published[i] # "status"

\* C20: an arrival result carries delta_cm = baseline - filtered, which is
\* more than TRIGGER_DELTA_CM, duration_ms = the time since the first call of
\* the current run of occluded calls, at least HOLD_MS, and the state
\* HAS_MAIL; a collection result carries delta_cm = filtered - trigger, which
\* is more than half of TRIGGER_DELTA_CM, duration_ms >= HOLD_MS and the
\* state EMPTIED
C20_EventPayload ==
    /\ data.mail_detected =>
           /\ data.delta_cm = proc.baseline_cm - data.filtered_cm
           /\ data.delta_cm > TRIGGER_DELTA_CM * CmUnit
           /\ obs.heldSince >= 0
           /\ data.duration_ms = (now - obs.heldSince) \div 1000
           /\ data.duration_ms >= HOLD_MS
           /\ data.state = "HAS_MAIL"
           /\ ctx.current_state = "HAS_MAIL"
           /\ ~data.mail_collected
    /\ data.mail_collected =>
           /\ data.delta_cm = data.filtered_cm - proc.trigger_thresh_cm
           /\ 2 * data.delta_cm > TRIGGER_DELTA_CM * CmUnit
           /\ data.duration_ms >= HOLD_MS
           /\ data.state = "EMPTIED"
           /\ ctx.current_state = "EMPTIED"
           /\ ~data.mail_detected

\* a collection reported after an arrival whose occlusion outlasted the hold time
C20_Witness ==
    /\ data.mail_collected
    /\ obs.arrivals = 1
    /\ obs.arrivalTs - obs.firstTs > HoldUs

\* C21: a timer wake-up hands Process a timestamp that is the previous one
\* plus the previous cycle's wake duration plus DEEP_SLEEP_US, so at least
\* DEEP_SLEEP_US later; only a fresh boot hands it 0, and that cycle processes
\* its sample on a new context instead of the retained one
C21_VirtualClock ==
    [][IF rtc_store'.boot_count = 0
       THEN /\ now' = 0
            /\ rtc' = GetContext(ProcessCall(ProcessorNew, rdata'.raw_cm, 0).proc)
       ELSE /\ rtc_store.virtual_time_us >= now
            /\ now' = rtc_store.virtual_time_us + DEEP_SLEEP_US
            /\ now' >= now + DEEP_SLEEP_US]_vars

\* the second timer wake-up after a second fresh boot, the cycle before it
\* having transmitted
C21_Witness ==
    /\ sent.boots = 2
    /\ rtc_store.boot_count = 2
    /\ now = 2 * DEEP_SLEEP_US + 2 * AwakeUs + PublishUs

\* C23 as stated: the wake cycle of a fresh boot, at virtual time 0, finds
\* the heartbeat due
C23_HeartbeatOnFreshBoot ==
    (calls > 0 /\ rtc_store.boot_count = 0) => sent.periodic_update

\* C24 as stated: a wake cycle advances last_telemetry_time_sec only if its
\* status record was handed to the MQTT client
C24_StampOnlyAfterHandOver ==
    [][rtc_store'.last_telemetry_time_sec > rtc_store.last_telemetry_time_sec =>
           \E i \in 1..Len(sent'.published) : sent'.published[i] = "status"]_vars

\* C25: a wake cycle whose Wi-Fi connection fails hands nothing to the MQTT
\* client, and an event record handed over in a wake cycle reports an event
\* of that same cycle's Process result, never one of an earlier cycle
C25_NoRetry ==
    /\ (sent.attempted /\ ~sent.wifi_connected) => sent.published = <<>>
    /\ \A i \in 1..Len(sent.published) :
          /\ sent.published[i] = "events/mail_drop" => rdata.mail_detected
          /\ sent.published[i] = "events/mail_collected" => rdata.mail_collected

\* an arrival was lost to a failed connection, and a later cycle connected
\* and handed over its collection
C25_Witness ==
    /\ sent.lost = 1
    /\ obs.arrivals = 1
    /\ rdata.mail_collected
    /\ sent.published = <<"events/mail_collected", "status">>

\* the transitions of the mailbox state machine
Edges ==
    {<<"EMPTY", "HAS_MAIL">>, <<"HAS_MAIL", "FULL">>, <<"HAS_MAIL", "EMPTIED">>,
     <<"FULL", "EMPTIED">>, <<"EMPTIED", "EMPTY">>}

\* C26: a Process call leaves the mailbox state as it is or moves it along
\* exactly one of EMPTY->HAS_MAIL, HAS_MAIL->FULL, HAS_MAIL->EMPTIED,
\* FULL->EMPTIED, EMPTIED->EMPTY
C26_OneEdgePerCall ==
    [][\/ ctx'.current_state = ctx.current_state
       \/ <<ctx.current_state, ctx'.current_state>> \in Edges]_vars

\* the mailbox went EMPTY, HAS_MAIL, FULL, EMPTIED and is EMPTY again
C26_Witness ==
    /\ obs.pre = "EMPTIED"
    /\ ctx.current_state = "EMPTY"
    /\ obs.rel.collections = 1

\* C27: in every Process result mail_detected is set exactly when the call
\* moved the state from EMPTY to HAS_MAIL, mail_collected exactly when it
\* moved the state from HAS_MAIL or FULL to EMPTIED, never both; delta_cm and
\* duration_ms are 0 without an event; and the returned state is the
\* context's state after the call
C27_FlagsAreTransitions ==
    calls > 0 =>
        /\ data.mail_detected <=>
               (obs.pre = "EMPTY" /\ ctx.current_state = "HAS_MAIL")
        /\ data.mail_collected <=>
               (obs.pre \in {"HAS_MAIL", "FULL"} /\ ctx.current_state = "EMPTIED")
        /\ ~(data.mail_detected /\ data.mail_collected)
        /\ (~data.mail_detected /\ ~data.mail_collected) =>
               (data.delta_cm = 0 /\ data.duration_ms = 0)
        /\ data.state = ctx.current_state

\* a collection reported by a call made in FULL
C27_Witness ==
    /\ data.mail_collected
    /\ obs.pre = "FULL"
    /\ data.state = "EMPTIED"
    /\ data.duration_ms >= HOLD_MS

\* the filtered value of the last call lies in [trigger, empty]
InDeadBand ==
    /\ calls > 0
    /\ data.filtered_cm >= proc.trigger_thresh_cm
    /\ data.filtered_cm <= proc.empty_thresh_cm

\* C28: a Process call whose filtered value lies in [trigger, empty] reports
\* no event and leaves the occlusion timer not running, and when made in
\* EMPTY, HAS_MAIL or FULL it leaves the state as it was
C28_DeadBand ==
    InDeadBand =>
        /\ obs.pre \in {"EMPTY", "HAS_MAIL", "FULL"} => ctx.current_state = obs.pre
        /\ NoEvent(data)
        /\ ~ctx.occluding

\* a call made in FULL with the timer running saw the filtered value exactly
\* at the empty threshold
C28_Witness ==
    /\ InDeadBand
    /\ obs.pre = "FULL"
    /\ obs.preOccluding
    /\ data.filtered_cm = proc.empty_thresh_cm

\* C29: a call made in EMPTY with a valid filtered value that is at or above
\* the trigger threshold, or made during refractory, leaves the occlusion
\* timer not running; a timer running in EMPTY was started by the first call
\* of the current uninterrupted run of occluded calls, and an arrival reports
\* as duration_ms the time since that call, at least HOLD_MS
C29_InterruptionRestartsHold ==
    calls > 0 =>
        /\ ( /\ obs.pre = "EMPTY" /\ ctx.current_state = "EMPTY"
             /\ data.filtered_cm > 0
             /\ \/ data.filtered_cm >= proc.trigger_thresh_cm
                \/ now < ctx.refractory_until_us ) => ~ctx.occluding
        /\ (ctx.current_state = "EMPTY" /\ ctx.occluding) =>
               ctx.occlusion_start_us = obs.heldSince
        /\ data.mail_detected =>
               /\ now - obs.heldSince >= HoldUs
               /\ data.duration_ms = (now - obs.heldSince) \div 1000

\* the first call started a timer, a later call interrupted it, and the
\* arrival is reported HOLD_MS after the occlusion resumed
C29_Witness ==
    /\ data.mail_detected
    /\ obs.allValid
    /\ Len(recent) = calls
    /\ recent[1] < proc.trigger_thresh_cm
    /\ obs.heldSince > obs.firstTs

\* the counters of the last call after its increments, and its accumulator
\* after adding the elapsed time
OkCounted == obs.preOk + (IF data.raw_cm > 0 THEN 1 ELSE 0)
TotalCounted == obs.preTotal + 1
ElapsedAtCall == (now - obs.preUpdate) \div 1000
Accumulated == obs.preDecay + ElapsedAtCall

\* C30: a recomputing call publishes the rate of the counters before any
\* halving; if its accumulator has reached 60 000 ms it halves both counters
\* once, with integer division, and resets the accumulator, however many
\* decay periods have elapsed; otherwise it halves nothing
C30_DecayStep ==
    Recomputed =>
        /\ data.success_rate = FloatDiv(OkCounted, TotalCounted)
        /\ ctx.success_rate = data.success_rate
        /\ IF Accumulated >= 60000
           THEN /\ ctx.ok_count = OkCounted \div 2
                /\ ctx.total_count = TotalCounted \div 2
                /\ ctx.ms_since_decay = 0
           ELSE /\ ctx.ok_count = OkCounted
                /\ ctx.total_count = TotalCounted
                /\ ctx.ms_since_decay = Accumulated

\* a recomputing call more than two decay periods after the previous one,
\* with counters that further halvings would have lowered
C30_Witness ==
    /\ Recomputed
    /\ ElapsedAtCall >= 2 * 60000
    /\ TotalCounted >= 4
    /\ OkCounted >= 2
    /\ ctx.total_count = TotalCounted \div 2
    /\ ctx.ok_count = OkCounted \div 2

\* C31: with Process calls at least DEEP_SLEEP_US apart, total_count and
\* ok_count never exceed 12
C31_CountersBounded ==
    /\ ctx.ok_count <= ctx.total_count
    /\ ctx.total_count <= 12
    /\ rtc.total_count <= 12

\* the counters at their highest, all samples valid, after several halvings
C31_Witness ==
    /\ ctx.total_count = 10
    /\ ctx.ok_count = 10
    /\ obs.halvings >= 3

\* C32 as stated: a hold met by the true duration is never missed: a call made
\* in EMPTY outside the refractory window with the timer running, a valid
\* filtered value below the trigger threshold and a timestamp at least HOLD_MS
\* after occlusion_start_us reports the arrival, however long the gap.
C32_HoldNeverMissed ==
    [][ ( /\ ctx.current_state = "EMPTY"
          /\ ctx.occluding
          /\ 0 < data'.filtered_cm
          /\ data'.filtered_cm < proc.trigger_thresh_cm
          /\ ~TimeBefore(now', ctx.refractory_until_us)
          /\ ~TimeBefore(now', TimeAfter(ctx.occlusion_start_us, HoldUs)) )
        => data'.mail_detected ]_vars

\* C33: in a run from a cold start the events alternate, beginning with an
\* arrival: the arrivals are one ahead of the collections exactly while the
\* state is HAS_MAIL or FULL; no call reports both; an arrival is reported by
\* a call made in EMPTY, a collection leads to EMPTIED, and EMPTY is entered
\* from EMPTIED only; an arrival comes at least 3 * HOLD_MS + REFRACTORY_MS
\* after the arrival before it.
C33_EventOrder ==
    /\ [](/\ obs.arrivals = obs.collections
                + (IF ctx.current_state \in {"HAS_MAIL", "FULL"} THEN 1 ELSE 0)
          /\ ~(data.mail_detected /\ data.mail_collected))
    /\ [][ /\ data'.mail_detected =>
                  /\ ctx.current_state = "EMPTY"
                  /\ proc'.ctx.current_state = "HAS_MAIL"
                  /\ obs.arrivals > 0 =>
                         now' - obs.arrivalTs >= 3 * HoldUs + RefractoryUs
           /\ data'.mail_collected => proc'.ctx.current_state = "EMPTIED"
           /\ (proc'.ctx.current_state = "EMPTY" /\ ctx.current_state # "EMPTY")
                  => ctx.current_state = "EMPTIED" ]_vars

\* the second arrival of a run, after one collection
C33_Witness ==
    /\ data.mail_detected
    /\ obs.arrivals = 2
    /\ obs.collections = 1

\* the context app_main restores in the wake cycle a step performs
Restored == Booted(rtc_store'.boot_count = 0).processor_state

\* C34: the virtual time of every Process call made by app_main is at least
\* state_change_us and last_update_us of the restored context and, while that
\* context is occluding, at least its occlusion_start_us.
C34_NoTimestampUnderflow ==
    [][ /\ ~TimeBefore(now', Restored.state_change_us)
        /\ ~TimeBefore(now', Restored.last_update_us)
        /\ Restored.occluding => ~TimeBefore(now', Restored.occlusion_start_us) ]_vars

\* a timer wake-up restored a context in HAS_MAIL with the timer running
C34_Witness ==
    /\ rtc_store.boot_count > 0
    /\ obs.pre = "HAS_MAIL"
    /\ obs.preOccluding
    /\ TimeBefore(TimeOf(0), ctx.state_change_us)

\* C35: the virtual time of every Process call made by app_main is at least
\* refractory_until_us of the restored context, so no occluded call made in
\* EMPTY is ever suppressed.
C35_RefractoryNeverActive ==
    [][ /\ ~InRefractory(Restored, now')
        /\ obs'.suppressed = 0 ]_vars

\* a timer wake-up made its call in EMPTY after a full round, with the
\* refractory window of the return to EMPTY already over
C35_Witness ==
    /\ rtc_store.boot_count > 0
    /\ obs.pre = "EMPTY"
    /\ obs.collections = 1
    /\ TimeBefore(TimeOf(0), ctx.refractory_until_us)
    /\ ~TimeBefore(now, ctx.refractory_until_us)

C37_TimerHygiene ==
    /\ [](/\ ctx.current_state = "EMPTIED" => ~ctx.occluding
          /\ (data.mail_detected \/ data.mail_collected) => ~ctx.occluding
          /\ rtc.occluding = ctx.occluding)
    /\ [][ /\ data'.mail_detected =>
                  /\ ctx.occluding
                  /\ ~TimeBefore(ctx.occlusion_start_us, ctx.state_change_us)
           /\ data'.mail_collected =>
                  /\ ctx.occluding
                  /\ TimeBefore(obs.arrivalTs, ctx.occlusion_start_us) ]_vars

\* a collection reported from FULL left the context in EMPTIED, timer stopped
C37_Witness ==
    /\ data.mail_collected
    /\ obs.pre = "FULL"
    /\ ctx.current_state = "EMPTIED"
    /\ ~ctx.occluding

\* C38 as stated: after a wake cycle in which the heartbeat was due and the
\* connection did not succeed, the next wake cycle attempts the connection;
\* a cycle whose connection failed, or that transmitted for an event alone,
\* leaves last_telemetry_time_sec as it found it; after a cycle that
\* transmitted the heartbeat the next one is not due.
C38_HeartbeatPersists ==
    [][ /\ (sent.periodic_update /\ ~sent.wifi_connected) => sent'.attempted
        /\ (sent'.attempted /\ ~(sent'.wifi_connected /\ sent'.periodic_update))
              => rtc_store'.last_telemetry_time_sec
                   = Booted(rtc_store'.boot_count = 0).last_telemetry_time_sec
        /\ (sent.periodic_update /\ sent.wifi_connected) => ~sent'.periodic_update ]_vars

\* C39: for a result with delta_cm above TRIGGER_DELTA_CM, duration_ms at
\* least HOLD_MS and success_rate in [0, 1], the confidence is above 4/5 and
\* at most 1.
C39_ArrivalConfidence ==
    ( /\ data.delta_cm > TRIGGER_DELTA_CM * CmUnit
      /\ data.duration_ms >= HOLD_MS
      /\ InUnitInterval(data.success_rate) )
    => /\ FloatLess(<<4, 5>>, sent.confidence)
       /\ ~FloatLess(<<1, 1>>, sent.confidence)

\* the weakest arrival of the alphabet: half a centimetre above the trigger
\* delta, held for exactly HOLD_MS, no valid reading counted
C39_Witness ==
    /\ data.delta_cm = TRIGGER_DELTA_CM * CmUnit + 1
    /\ data.duration_ms = HOLD_MS
    /\ data.success_rate = <<0, 1>>
    /\ sent.confidence = <<53, 60>>

====
